---- MODULE Spec2Model ----
(***************************************************************************)
(* Model of src/bot.py: a scraper thread (scraper_loop -> process_item)    *)
(* that notifies new marketplace items, keeps a persisted set of item      *)
(* fingerprints (seen_hashes / seen_items.txt) and a bounded list of       *)
(* recent items (recent_items), next to a Flask thread that serves         *)
(* index() and get_item() from the same globals without any lock.          *)
(***************************************************************************)
EXTENDS Integers, Sequences, FiniteSets, TLC

(***************************************************************************)
(* Bounds of the model.                                                    *)
(***************************************************************************)
\* recent_items capacity.  src/bot.py:67 sets MAX_RECENT = 200; the model
\* runs the same code with a scaled capacity so that the list fills up.
MAX_RECENT == 2
\* Number of entries of SEARCHES (25 in src/bot.py:90-122), scaled.
NumSearches == 2
\* Longest item list a response carries.
MaxItems == 2
\* Number of process restarts a behaviour contains.
MaxRestarts == 1
\* Number of time.time() readings taken by item_hash's fallback in a behaviour.
MaxClock == 2
\* Largest per-process string-hash salt (PYTHONHASHSEED randomisation).
MaxSeed == 1
\* Number of failed appends to seen_items.txt a behaviour contains.
MaxWriteFailures == 1

(***************************************************************************)
(* Python values.  k is the type, s is str(value), a is, for a price dict, *)
(* the value of  d.get("amount") or d.get("value") or d.get("raw")  as     *)
(* text ("" when none of them is truthy).                                  *)
(***************************************************************************)
Absent == [k |-> "absent", s |-> "", a |-> ""]
PyNone == [k |-> "none", s |-> "None", a |-> ""]
PyStr(x) == [k |-> "str", s |-> x, a |-> ""]
PyInt(x) == [k |-> "int", s |-> x, a |-> ""]
\* a list of strings; s is ", ".join(list), empty list when s = ""
PyStrList(x) == [k |-> "strlist", s |-> x, a |-> ""]
\* a non-empty list holding a non-string element
PyIntList(x) == [k |-> "intlist", s |-> x, a |-> ""]
PyDict(x, amount) == [k |-> "dict", s |-> x, a |-> amount]

\* Python truthiness of a value (None, "", 0, [] and {} are falsy).
Truthy(v) ==
    /\ v.k \notin {"absent", "none"}
    /\ ~(v.k \in {"str", "strlist", "dict"} /\ v.s = "")
    /\ ~(v.k = "int" /\ v.s = "0")

\* a or b
PyOr(a, b) == IF Truthy(a) THEN a ELSE b

\* d.get(key, default): the default applies only to a missing key
GetDefault(v, d) == IF v.k = "absent" THEN d ELSE v

\* d.get(key): a missing key reads as None
Get(v) == GetDefault(v, PyNone)

\* hash() raises TypeError on lists and dicts
Hashable(v) == v.k \notin {"strlist", "intlist", "dict"}

\* float(x) succeeds on numbers and on numeric text
NumericText == {"5", "19", "19.00", "19.99"}
ParsesAsFloat(v) == v.k = "int" \/ (v.k = "str" /\ v.s \in NumericText)

\* f"{float(x):.2f}"
Fmt2(s) ==
    CASE s = "5" -> "5.00"
      [] s = "19" -> "19.00"
      [] s = "19.00" -> "19.00"
      [] s = "19.99" -> "19.99"
      [] OTHER -> s

(***************************************************************************)
(* Raw items: what the marketplace returns as one element of an item list. *)
(* isdict = FALSE is an element that is not a JSON object (text is its     *)
(* value); otherwise the fields are the keys process_item reads.           *)
(***************************************************************************)
\* One photo record: the URL under each key process reads ("" = key missing
\* or empty).  isdict = FALSE is a bare string (text).
NoPhoto ==
    [isdict |-> TRUE, text |-> "", url_fullxfull |-> "", url_full |-> "",
     url |-> "", xlarge |-> "", thumb |-> ""]
PhotoText(x) == [NoPhoto EXCEPT !.isdict = FALSE, !.text = x]
\* A photo field: missing, a list of photo records, one record, or a string.
NoPhotoField == [k |-> "absent", list |-> <<>>, d |-> NoPhoto, s |-> ""]
PhotoList(l) == [NoPhotoField EXCEPT !.k = "list", !.list = l]
PhotoDict(d) == [NoPhotoField EXCEPT !.k = "dict", !.d = d]
PhotoStr(x) == [NoPhotoField EXCEPT !.k = "str", !.s = x]

NoFields ==
    [isdict |-> TRUE, text |-> "",
     id |-> Absent, item_id |-> Absent, title |-> Absent, description |-> Absent,
     price |-> Absent, price_amount |-> Absent, size_title |-> Absent,
     sizes |-> Absent, condition_title |-> Absent, condition |-> Absent,
     url |-> Absent, permalink |-> Absent,
     photos |-> NoPhotoField, photos_urls |-> NoPhotoField,
     main_photo |-> NoPhotoField, photo |-> NoPhotoField]

NonDict(x) == [NoFields EXCEPT !.isdict = FALSE, !.text = x]

\* an ordinary listing with a photo
ItemFelpa ==
    [NoFields EXCEPT !.id = PyInt("7"), !.title = PyStr("Felpa"),
                     !.price = PyStr("19.99"), !.size_title = PyStr("M"),
                     !.condition_title = PyStr("Nuovo"),
                     !.photos = PhotoList(<<[NoPhoto EXCEPT !.url = "http://p/7u",
                                                           !.url_fullxfull = "http://p/7f"]>>)]
\* a listing without photo, numeric price, sizes as a list
ItemTuta ==
    [NoFields EXCEPT !.id = PyInt("8"), !.title = PyStr("Tuta"),
                     !.price = PyInt("19"), !.sizes = PyStrList("S, M")]
\* the same listing with its price as text, and with its id under "item_id"
ItemTutaText == [ItemTuta EXCEPT !.price = PyStr("19.00")]
ItemTutaById == [ItemTuta EXCEPT !.id = Absent, !.item_id = PyInt("8")]
\* a listing with every field process_item reads for the message
ItemFull ==
    [NoFields EXCEPT !.id = PyInt("7"), !.title = PyStr("Felpa"),
                     !.price = PyStr("19.99"), !.size_title = PyStr("M"),
                     !.condition_title = PyStr("Nuovo"),
                     !.url = PyStr("http://v/7"),
                     !.photos = PhotoList(<<[NoPhoto EXCEPT !.url = "http://p/7u"]>>)]
\* the fields a listing can come without
FieldNames == {"title", "price", "size", "condition", "id", "link", "photo"}
\* the item without the fields of S (the keys are missing from the object)
Without(item, S) ==
    [item EXCEPT !.title = IF "title" \in S THEN Absent ELSE @,
                 !.price = IF "price" \in S THEN Absent ELSE @,
                 !.size_title = IF "size" \in S THEN Absent ELSE @,
                 !.condition_title = IF "condition" \in S THEN Absent ELSE @,
                 !.id = IF "id" \in S THEN Absent ELSE @,
                 !.url = IF "link" \in S THEN Absent ELSE @,
                 !.photos = IF "photo" \in S THEN NoPhotoField ELSE @]
\* a listing whose title is a list
ItemListTitle ==
    [NoFields EXCEPT !.id = PyInt("9"), !.title = PyStrList("Polo, blu"),
                     !.price = PyStr("5")]
\* a listing whose sizes are a list of numbers
ItemNumSizes ==
    [NoFields EXCEPT !.id = PyInt("10"), !.title = PyStr("Scarpe"),
                     !.price = PyStr("n/a"), !.sizes = PyIntList("[38]")]
\* an object without any of the fields
ItemEmpty == NoFields
\* an element that is a string, not an object
ItemText == NonDict("meta")

(***************************************************************************)
(* extract_photo_url                                                       *)
(***************************************************************************)
\* the first populated key of a dict of the photos list ("" when none)
PhotoKeyOf(p) ==
    CASE p.url_fullxfull # "" -> p.url_fullxfull
      [] p.url_full # "" -> p.url_full
      [] p.url # "" -> p.url
      [] p.xlarge # "" -> p.xlarge
      [] p.thumb # "" -> p.thumb
      [] OTHER -> ""

\* the first populated key of a main_photo dict: thumb is not among them
MainKeyOf(p) ==
    CASE p.url_fullxfull # "" -> p.url_fullxfull
      [] p.url_full # "" -> p.url_full
      [] p.url # "" -> p.url
      [] p.xlarge # "" -> p.xlarge
      [] OTHER -> ""

\* the loop over the photos list: the first dict with a populated key, or the
\* first bare string (returned even when empty), decides; "" when none does
RECURSIVE FirstPhoto(_)
FirstPhoto(l) ==
    IF l = <<>> THEN [found |-> FALSE, url |-> ""]
    ELSE LET p == Head(l) IN
         IF p.isdict
         THEN IF PhotoKeyOf(p) # "" THEN [found |-> TRUE, url |-> PhotoKeyOf(p)]
              ELSE FirstPhoto(Tail(l))
         ELSE [found |-> TRUE, url |-> p.text]

\* a photo field is truthy when present and non-empty
PhotoTruthy(f) ==
    \/ f.k = "list" /\ f.list # <<>>
    \/ f.k = "dict" /\ f.d # NoPhoto
    \/ f.k = "str" /\ f.s # ""

PhotoOr(a, b) == IF PhotoTruthy(a) THEN a ELSE b

\* the URL extract_photo_url returns; "" stands for None and for an empty
\* string alike: process_item only tests the result for truth
extract_photo_url(item) ==
    IF item = NoFields THEN ""
    ELSE LET photos == PhotoOr(PhotoOr(item.photos, item.photos_urls), PhotoList(<<>>))
             main == PhotoOr(PhotoOr(item.main_photo, item.photo), item.photos_urls)
             fromList == IF photos.k = "list" THEN FirstPhoto(photos.list)
                         ELSE [found |-> FALSE, url |-> ""]
         IN  IF fromList.found THEN fromList.url
             ELSE IF main.k = "dict" /\ MainKeyOf(main.d) # "" THEN MainKeyOf(main.d)
             ELSE IF main.k = "str" THEN main.s
             ELSE ""

(***************************************************************************)
(* item_hash                                                               *)
(***************************************************************************)
\* A fingerprint, as the text written to seen_items.txt.  k = "hash" is
\* str(abs(hash((id_, title, price)))): the tuple hash is taken to be free of
\* collisions, so the text names the salt and the tuple.  k = "time" is the
\* fallback str(time.time()) with the clock reading t.
Unsalted == 0 - 1
HashFp(salt, id_, title, price) ==
    [k |-> "hash", salt |-> salt, id |-> id_, tk |-> title.k, title |-> title.s,
     price |-> price, t |-> 0]
TimeFp(t) ==
    [k |-> "time", salt |-> Unsalted, id |-> "", tk |-> "", title |-> "",
     price |-> "", t |-> t]

\* The salt a tuple's hash depends on: CPython salts the hash of every str but
\* the empty one, and does not salt the hash of a number.
SaltOf(seed, id_, title, price) ==
    IF id_ = "" /\ price = "" /\ (title.k # "str" \/ title.s = "")
    THEN Unsalted ELSE seed

\* item_hash raises inside its try (and falls back to the clock) when the item
\* is no dict or the title cannot be hashed
HashTitle(item) == PyOr(GetDefault(item.title, PyStr("")), PyStr(""))
HashFallsBack(item) == ~item.isdict \/ ~Hashable(HashTitle(item))

item_hash(item, seed, now) ==
    IF HashFallsBack(item) THEN TimeFp(now)
    ELSE LET id_ == GetDefault(item.id, PyStr("")).s
             title == HashTitle(item)
             price == PyOr(GetDefault(item.price, PyStr("")), PyStr("")).s
         IN  HashFp(SaltOf(seed, id_, title, price), id_, title, price)

(***************************************************************************)
(* process_item, lines 192-210 and 238-240: the fields of the message and  *)
(* of the recent_items record.                                             *)
(***************************************************************************)
NormTitle(item) ==
    PyOr(PyOr(Get(item.title), Get(item.description)), PyStr("Senza titolo"))

NormPrice(item) ==
    LET p == PyOr(PyOr(Get(item.price), Get(item.price_amount)), PyStr("N/A"))
    IN  IF p.k = "dict" THEN PyOr(PyStr(p.a), PyStr("N/A")) ELSE p

PriceStr(item) ==
    LET p == NormPrice(item)
    IN  IF ParsesAsFloat(p) THEN Fmt2(p.s) ELSE p.s

RawSizes(item) == PyOr(PyOr(Get(item.size_title), Get(item.sizes)), PyStr("N/A"))

\* ", ".join(sizes) raises TypeError when an element of the list is no string
JoinRaises(item) == RawSizes(item).k = "intlist"

NormSizes(item) == RawSizes(item).s

NormCondition(item) ==
    PyOr(PyOr(Get(item.condition_title), Get(item.condition)), PyStr("N/A"))

Pid(item) == PyOr(PyOr(Get(item.id), Get(item.item_id)), PyStr(""))

\* the link: the item page of pid, or the item's own url, or "N/A"
Link(item) ==
    IF Truthy(Pid(item)) THEN <<"https://www.vinted.it/items/", Pid(item).s>>
    ELSE <<"", PyOr(PyOr(Get(item.url), Get(item.permalink)), PyStr("N/A")).s>>

\* a normalization that reads the title with item["title"]
NormalizeRaisesOnGap(item) ==
    ~item.isdict \/ JoinRaises(item) \/ item.title.k = "absent"

\* the body of process_item after the fingerprint is saved raises (and the
\* except of line 247 ends the call) when the item is no dict (item.get) or
\* its sizes cannot be joined
NormalizeRaises(item) == ~item.isdict \/ JoinRaises(item)

\* what process_item makes of the id, the title and the price of an item:
\* pid, title and price_str of lines 192-207
NormTriple(item) == <<Pid(item).s, NormTitle(item).s, PriceStr(item)>>

\* SEARCHES, scaled to NumSearches entries
SEARCHES ==
    [i \in 1..NumSearches |->
        IF i = 1 THEN [brand |-> "Nike", category |-> "tuta", price |-> 35]
        ELSE [brand |-> "Nike", category |-> "scarpe", price |-> 30 + (i - 2)]]

\* rec of line 238 (the timestamp is left out: no clock is read for it here)
Rec(item, spec) ==
    [id |-> Pid(item), brand |-> spec.brand, category |-> spec.category,
     price |-> PriceStr(item), title |-> NormTitle(item).s,
     sizes |-> NormSizes(item), condition |-> NormCondition(item).s,
     link |-> Link(item), state |-> "Trovato"]

(***************************************************************************)
(* seen_items.txt: a sequence of lines.  A line is the text before its     *)
(* newline; NoText is a line of white space only.                          *)
(***************************************************************************)
NoText == [k |-> "blank", salt |-> Unsalted, id |-> "", tk |-> "", title |-> "",
           price |-> "", t |-> 0]
Line(h) == <<h, "\n">>
Strip(line) == line[1]

\* lines 70-78: the set read from the first n lines (all of them unless the
\* read raises part way)
Range(f) == {f[i] : i \in DOMAIN f}

\* a read that misses the last line of the file
LoadSeenButLast(file, n) == {Strip(file[i]) : i \in 1..(n - 1)} \ {NoText}

LoadSeen(file, n) == {Strip(file[i]) : i \in 1..n} \ {NoText}

(***************************************************************************)
(* Responses of the marketplace to requests.get (line 258).                *)
(***************************************************************************)
\* An element of an item list: what it is as a raw item (self) and what its
\* "item" key holds: nothing (k = "absent"), a dict (k = "dict", the raw item
\* v) or something that is no dict (k = "other").
Elem(self, k, v) == [self |-> self, item |-> [k |-> k, v |-> v]]
Plain(it) == Elem(it, "absent", NoFields)
\* lines 278-281
Unwrap(e) == IF e.self.isdict /\ e.item.k = "dict" THEN e.item.v ELSE e.self

ListsOf(elems, n) == UNION {[1..m -> elems] : m \in 0..n}

\* A JSON value under the "items" or "data" key of the body.
\*   list: elems        dict with an "items" key: has = TRUE, elems under it
\*   dict without one: keys are its keys        str: keys are its characters
JAbsent == [k |-> "absent", elems |-> <<>>, has |-> FALSE, keys |-> <<>>]
JList(l) == [JAbsent EXCEPT !.k = "list", !.elems = l]
JNested(l) == [JAbsent EXCEPT !.k = "dict", !.has = TRUE, !.elems = l]
JDict(ks) == [JAbsent EXCEPT !.k = "dict", !.keys = ks]
JStr(cs) == [JAbsent EXCEPT !.k = "str", !.keys = cs]
JNum == [JAbsent EXCEPT !.k = "num"]

JTruthy(v) ==
    \/ v.k = "list" /\ v.elems # <<>>
    \/ v.k = "dict" /\ (v.has \/ v.keys # <<>>)
    \/ v.k = "str" /\ v.keys # <<>>
    \/ v.k = "num"

\* A response: requests.get raised (k = "exc"), or a body came back with a
\* status: no JSON (k = "nonjson"), JSON that is no object (k = "notdict"),
\* or a JSON object with its "items" and "data" values (k = "json").
Resp(k, ok, i, d) == [k |-> k, ok |-> ok, items |-> i, data |-> d]

\* the marketplace named n
Market(n) == [name |-> n, absent |-> {}]

\* The marketplaces a behaviour can run against: each answers the request
\* for the i-th search with any response of its set.
\*   "solo":     a failed request, or a well-formed body listing one item
\*   "listings": well-formed bodies listing an ordinary and two malformed
\*               items, the same for every search
\*   "shapes":   failed requests and every shape of body, with one listing
\*   "plain":    well-formed bodies listing ordinary items, other ones for
\*               the first search than for the rest
\*   "variants": well-formed bodies listing one article in three spellings
\*   "fields":   well-formed bodies listing one item, ItemFull without the
\*               fields of m.absent
Offered(m, i) ==
    CASE m.name = "solo" ->
           {Resp("exc", FALSE, JAbsent, JAbsent)}
           \cup {Resp("json", TRUE, JList(l), JAbsent) :
                    l \in ListsOf({Plain(ItemFelpa)}, MaxItems)}
      [] m.name = "listings" ->
           {Resp("exc", FALSE, JAbsent, JAbsent),
            Resp("nonjson", TRUE, JAbsent, JAbsent)}
           \cup {Resp("json", TRUE, JList(l), JAbsent) :
                    l \in ListsOf({Plain(ItemFelpa), Plain(ItemListTitle),
                                   Plain(ItemNumSizes)}, MaxItems)}
      [] m.name = "shapes" ->
           LET Few == ListsOf({Plain(ItemFelpa), Elem(NoFields, "dict", ItemFelpa)}, 1)
           IN  {Resp("exc", FALSE, JAbsent, JAbsent),
                Resp("notdict", TRUE, JAbsent, JAbsent)}
               \cup {Resp("nonjson", ok, JAbsent, JAbsent) : ok \in BOOLEAN}
               \cup {Resp("json", ok, JList(l), JAbsent) : ok \in BOOLEAN, l \in Few}
               \cup {Resp("json", TRUE, i0, JList(l)) :
                        i0 \in {JAbsent, JList(<<>>), JList(<<Plain(ItemText)>>)},
                        l \in Few}
               \cup {Resp("json", TRUE, JNested(l), JAbsent) : l \in Few}
               \cup {Resp("json", TRUE, JAbsent, JNested(l)) : l \in Few}
               \cup {Resp("json", TRUE, v, JAbsent) : v \in {JDict(<<"meta">>), JStr(<<"m">>), JNum}}
               \cup {Resp("json", TRUE, JAbsent, JDict(<<"meta">>)),
                     Resp("json", TRUE, JDict(<<"info">>),
                          JList(<<Plain(ItemFelpa)>>))}
      [] m.name = "fields" ->
           {Resp("exc", FALSE, JAbsent, JAbsent)}
           \cup {Resp("json", TRUE, JList(l), JAbsent) :
                    l \in ListsOf({Plain(Without(ItemFull, m.absent))}, MaxItems)}
      [] m.name = "variants" ->
           {Resp("exc", FALSE, JAbsent, JAbsent)}
           \cup {Resp("json", TRUE, JList(l), JAbsent) :
                    l \in ListsOf({Plain(ItemTuta), Plain(ItemTutaText),
                                   Plain(ItemTutaById)}, MaxItems)}
      [] OTHER ->
           {Resp("json", TRUE, JList(l), JAbsent) :
              l \in ListsOf(IF i = 1 THEN {Plain(ItemFelpa), Plain(ItemTuta)}
                            ELSE {Plain(ItemEmpty)}, MaxItems)}

\* lines 267-270: the value the loop of line 276 iterates
Container(r) ==
    LET items == IF JTruthy(r.items) THEN r.items
                 ELSE IF JTruthy(r.data) THEN r.data ELSE JList(<<>>)
    IN  IF items.k = "dict" /\ items.has THEN JList(items.elems) ELSE items

\* the elements the loop of line 276 yields: the elements of a list, the keys
\* of a dict, the characters of a string
Iterated(v) ==
    IF v.k = "list" THEN v.elems
    ELSE [i \in 1..Len(v.keys) |-> Plain(NonDict(v.keys[i]))]

\* How the pass over one spec ends before the loop of line 276:
\*   "exc"     requests.get raised, or data.get raised on a body that is no
\*             object: the except of line 286
\*   "nonjson" resp.json() raised: the continue of line 264
\*   "empty"   not items: the continue of line 274
\*   "raise"   the container cannot be iterated (a number): line 286
\*   "loop"    the loop runs
FetchOutcome(r) ==
    CASE r.k \in {"exc", "notdict"} -> "exc"
      [] r.k = "nonjson" -> "nonjson"
      [] ~JTruthy(Container(r)) -> "empty"
      [] Container(r).k = "num" -> "raise"
      [] OTHER -> "loop"

\* a value that holds an item list: an array, or a dict with an "items" key
HoldsList(v) == v.k = "list" \/ (v.k = "dict" /\ v.has)

\* the body is a JSON object with a non-empty item list under "items" or "data"
HasListing(r) ==
    /\ r.k = "json"
    /\ \E v \in {r.items, r.data} : HoldsList(v) /\ v.elems # <<>>

\* what scraper_loop knows of a response once line 274 is passed
Fetched(r) ==
    [outcome |-> FetchOutcome(r), ok |-> r.ok, json |-> (r.k = "json"),
     listing |-> HasListing(r)]

\* the number of time.time() readings the items of a response can take
RECURSIVE Fallbacks(_)
Fallbacks(l) ==
    IF l = <<>> THEN 0
    ELSE (IF HashFallsBack(Unwrap(Head(l))) THEN 1 ELSE 0) + Fallbacks(Tail(l))

(***************************************************************************)
(* State.                                                                  *)
(***************************************************************************)
VARIABLES
    seen_file,      \* the lines of seen_items.txt (SEEN_FILE)
    seen_hashes,    \* the set of fingerprints in memory
    recent_items,   \* the dashboard list, newest first
    sheet,          \* TRUE when the Google Sheets setup of lines 30-61 succeeded
    hashseed,       \* the string-hash salt of this process
    clock,          \* the number of time.time() readings item_hash has taken
    run,            \* the number of restarts so far
    loaded,         \* TRUE when the startup read of seen_items.txt did not raise
    preloaded,      \* seen_hashes as the startup read left it
    pc,             \* where the scraper thread stands
    si,             \* the index in SEARCHES of the spec being polled
    fetched,        \* how the last fetch ended (FetchOutcome) and its status
    items,          \* the elements of the response not yet handed on
    local,          \* the locals of the running process_item call
    web,            \* the Flask thread: the request being served
    market,         \* which responses the marketplace gives in this behaviour
    outbox,         \* the requests this run sent to Telegram
    rows,           \* the append_row calls this run made on "Trovati"
    once,           \* the raw items handed to process_item in this run
    earlier,        \* the raw items an earlier run notified and whose
                    \* fingerprint of that run is in seen_items.txt
    wfails,         \* the number of appends to seen_items.txt that failed
    inserted,       \* the records this run put into recent_items, in order
    config          \* TRUE when BOT_TOKEN and CHAT_ID are both set (line 26)

vars == <<seen_file, seen_hashes, recent_items, sheet, hashseed, clock, run,
          loaded, preloaded, pc, si, fetched, items, local, web, market,
          outbox, rows, once, earlier, wfails, inserted, config>>

Seeds == 0..MaxSeed

\* the locals of process_item before the call starts
NoLocal ==
    [item |-> NoFields, again |-> FALSE, h |-> NoText, wrote |-> "none",
     sent |-> "none", tries |-> 0, rowed |-> "none", result |-> "none"]

\* the Flask thread between requests; while it serves one: op is the view,
\* arg the item_id of the URL, step the next read of index(), i the number of
\* entries get_item's loop has taken, scanned the length of recent_items at
\* the loop's last read, and, once the view has returned (step = "done"),
\* status and body are the response.  For a lookup, had tells whether
\* recent_items held the id when the request arrived, and n0 how many
\* records the run had inserted by then.
WebIdle ==
    [op |-> "idle", arg |-> "", step |-> "", i |-> 0, scanned |-> 0,
     status |-> 0, tracked_total |-> 0, recent_count |-> 0, recent |-> <<>>,
     had |-> FALSE, n0 |-> 0]

\* line 310: str(r.get("id")) == str(item_id)
IdMatches(r, a) == r.id.s = a

\* recent_items holds an entry with the id a
Holds(l, a) == \E k \in 1..Len(l) : IdMatches(l[k], a)

\* the item ids a request asks for
Targets == {"7", "8", "99"}

\* recent_items[:n]
Slice(l, n) == SubSeq(l, 1, IF Len(l) < n THEN Len(l) ELSE n)

\* the number of entries index() returns (line 300)
RecentShown == 50

\* the Flask thread of a process in which app.run (line 320) was not reached
WebDown == [WebIdle EXCEPT !.op = "down"]

NoFetch == [outcome |-> "none", ok |-> TRUE, json |-> FALSE, listing |-> FALSE]

\* the state of a first start against the market mk
InitIn(mk) ==
    /\ market = mk
    /\ config = TRUE
    /\ seen_file = <<>>
    /\ seen_hashes = {}
    /\ preloaded = {}
    /\ loaded = TRUE
    /\ recent_items = <<>>
    /\ hashseed = 0
    /\ sheet \in BOOLEAN
    /\ clock = 0
    /\ run = 0
    /\ pc = "fetch"
    /\ si = 1
    /\ fetched = NoFetch
    /\ items = <<>>
    /\ local = NoLocal
    /\ web = WebIdle
    /\ outbox = {}
    /\ rows = {}
    /\ once = {}
    /\ earlier = {}
    /\ wfails = 0
    /\ inserted = <<>>

\* module level, lines 15-78 and 315-318: the state a starting process has
Startup(file, n, seed, sh) ==
    /\ seen_hashes' = LoadSeen(file, n)
    /\ preloaded' = LoadSeen(file, n)
    /\ loaded' = (n = Len(file))
    /\ recent_items' = <<>>
    /\ hashseed' = seed
    /\ sheet' = sh
    /\ pc' = "fetch"
    /\ si' = 1
    /\ fetched' = NoFetch
    /\ items' = <<>>
    /\ local' = NoLocal
    /\ web' = WebIdle
    /\ outbox' = {}
    /\ rows' = {}
    /\ inserted' = <<>>
    /\ once' = {}
    /\ config' = TRUE

\* the state of a first start against the market named m
InitOn(m) == InitIn(Market(m))

\* a first start without BOT_TOKEN or CHAT_ID against the market m: line 27
\* has raised, nothing below it has run
InitUnconfigured(m) ==
    /\ market = Market(m)
    /\ config = FALSE
    /\ seen_file = <<>>
    /\ seen_hashes = {}
    /\ preloaded = {}
    /\ loaded = FALSE
    /\ recent_items = <<>>
    /\ hashseed = 0
    /\ sheet = FALSE
    /\ clock = 0
    /\ run = 0
    /\ pc = "failed"
    /\ si = 1
    /\ fetched = NoFetch
    /\ items = <<>>
    /\ local = NoLocal
    /\ web = WebDown
    /\ outbox = {}
    /\ rows = {}
    /\ once = {}
    /\ earlier = {}
    /\ wfails = 0
    /\ inserted = <<>>

\* a start without BOT_TOKEN or CHAT_ID that goes on all the same: the
\* file is read, the thread and the server start
StartupUnchecked(seed) ==
    /\ config' = FALSE
    /\ seen_hashes' = LoadSeen(seen_file, Len(seen_file))
    /\ preloaded' = LoadSeen(seen_file, Len(seen_file))
    /\ loaded' = TRUE
    /\ recent_items' = <<>>
    /\ hashseed' = seed
    /\ sheet' = FALSE
    /\ pc' = "fetch"
    /\ si' = 1
    /\ fetched' = NoFetch
    /\ items' = <<>>
    /\ local' = NoLocal
    /\ web' = WebIdle
    /\ outbox' = {}
    /\ rows' = {}
    /\ inserted' = <<>>
    /\ once' = {}

\* lines 15-27: a start without BOT_TOKEN or CHAT_ID.  The raise of line 27
\* ends the process before the sheet setup (30), the globals (64-67), the
\* read of seen_items.txt (70), the thread (317) and app.run (320).
StartupFails(seed) ==
    /\ config' = FALSE
    /\ seen_hashes' = {}
    /\ preloaded' = {}
    /\ loaded' = FALSE
    /\ recent_items' = <<>>
    /\ hashseed' = seed
    /\ sheet' = FALSE
    /\ pc' = "failed"
    /\ si' = 1
    /\ fetched' = NoFetch
    /\ items' = <<>>
    /\ local' = NoLocal
    /\ web' = WebDown
    /\ outbox' = {}
    /\ rows' = {}
    /\ inserted' = <<>>
    /\ once' = {}

\* The process dies (at any point) and is started again: the file stays,
\* everything in memory is rebuilt by the module-level code.
Restart ==
    /\ run < MaxRestarts
    /\ run' = run + 1
    /\ \/ \E n \in {0, Len(seen_file)}, seed \in Seeds, sh \in BOOLEAN :
             Startup(seen_file, n, seed, sh)
       \/ \E seed \in Seeds : StartupFails(seed)
    /\ earlier' = earlier \cup
          {o.item : o \in {x \in outbox :
                             /\ ~HashFallsBack(x.item)
                             /\ Line(item_hash(x.item, hashseed, 0)) \in Range(seen_file)}}
    /\ UNCHANGED <<seen_file, clock, market, wfails>>

(***************************************************************************)
(* scraper_loop                                                            *)
(***************************************************************************)
\* the for loop of line 255 moves to the next spec, or to the sleep
AdvanceSpec ==
    IF si < NumSearches THEN pc' = "fetch" /\ si' = si + 1
    ELSE pc' = "sleep" /\ si' = si

\* lines 256-274: one request, the parse of its body, the item list
Fetch ==
    /\ pc = "fetch"
    /\ \E r \in Offered(market, si) :
          /\ Fallbacks(Iterated(Container(r))) <= MaxClock - clock
          /\ fetched' = Fetched(r)
          /\ IF FetchOutcome(r) = "loop"
             THEN /\ items' = Iterated(Container(r))
                  /\ pc' = "item"
                  /\ si' = si
             ELSE /\ items' = <<>>
                  /\ AdvanceSpec
    /\ UNCHANGED <<seen_file, seen_hashes, recent_items, sheet, hashseed,
                   clock, run, loaded, preloaded, local, web, market, outbox,
                   rows, once, earlier, wfails, inserted, config>>

\* a loop that hands on the last element of the list first
NextItemFromEnd ==
    /\ pc = "item"
    /\ IF items = <<>>
       THEN /\ AdvanceSpec
            /\ UNCHANGED <<items, local, once>>
       ELSE LET c == Unwrap(items[Len(items)]) IN
            /\ items' = SubSeq(items, 1, Len(items) - 1)
            /\ local' = [NoLocal EXCEPT !.item = c, !.again = (c \in once)]
            /\ once' = once \cup {c}
            /\ pc' = "hash"
            /\ si' = si
    /\ UNCHANGED <<seen_file, seen_hashes, recent_items, sheet, hashseed,
                   clock, run, loaded, preloaded, fetched, web, market,
                   outbox, rows, earlier, wfails, inserted, config>>

\* lines 276-283: the next element is unwrapped and handed to process_item,
\* or the list is exhausted
NextItem ==
    /\ pc = "item"
    /\ IF items = <<>>
       THEN /\ AdvanceSpec
            /\ UNCHANGED <<items, local, once>>
       ELSE LET c == Unwrap(Head(items)) IN
            /\ items' = Tail(items)
            /\ local' = [NoLocal EXCEPT !.item = c, !.again = (c \in once)]
            /\ once' = once \cup {c}
            /\ pc' = "hash"
            /\ si' = si
    /\ UNCHANGED <<seen_file, seen_hashes, recent_items, sheet, hashseed,
                   clock, run, loaded, preloaded, fetched, web, market,
                   outbox, rows, earlier, wfails, inserted, config>>

\* line 289 and the while of line 254
Sleep ==
    /\ pc = "sleep"
    /\ pc' = "fetch"
    /\ si' = 1
    /\ UNCHANGED <<seen_file, seen_hashes, recent_items, sheet, hashseed,
                   clock, run, loaded, preloaded, fetched, items, local, web,
                   market, outbox, rows, once, earlier, wfails, inserted,
                   config>>

(***************************************************************************)
(* process_item                                                            *)
(***************************************************************************)
\* lines 181-183: the fingerprint, and the return when it is known
ItemHash ==
    /\ pc = "hash"
    /\ LET h == item_hash(local.item, hashseed, clock + 1) IN
         /\ clock' = IF HashFallsBack(local.item) THEN clock + 1 ELSE clock
         /\ IF h \in seen_hashes
            THEN /\ local' = [local EXCEPT !.h = h, !.result = "seen"]
                 /\ pc' = "ret"
            ELSE /\ local' = [local EXCEPT !.h = h]
                 /\ pc' = "add"
    /\ UNCHANGED <<seen_file, seen_hashes, recent_items, sheet, hashseed, run,
                   loaded, preloaded, si, fetched, items, web, market, outbox,
                   rows, once, earlier, wfails, inserted, config>>

\* line 185
MarkSeen ==
    /\ pc = "add"
    /\ seen_hashes' = seen_hashes \cup {local.h}
    /\ pc' = "persist"
    /\ UNCHANGED <<seen_file, recent_items, sheet, hashseed, clock, run,
                   loaded, preloaded, si, fetched, items, local, web, market,
                   outbox, rows, once, earlier, wfails, inserted, config>>

\* lines 186-190: the append to seen_items.txt, which may raise
PersistSeen ==
    /\ pc = "persist"
    /\ \/ /\ seen_file' = Append(seen_file, Line(local.h))
          /\ local' = [local EXCEPT !.wrote = "ok"]
          /\ wfails' = wfails
       \/ /\ wfails < MaxWriteFailures
          /\ wfails' = wfails + 1
          /\ seen_file' = seen_file
          /\ local' = [local EXCEPT !.wrote = "failed"]
    /\ pc' = "normalize"
    /\ UNCHANGED <<seen_hashes, recent_items, sheet, hashseed, clock, run,
                   loaded, preloaded, si, fetched, items, web, market, outbox,
                   rows, once, earlier, inserted, config>>

\* a normalization whose exception leaves scraper_loop
NormalizeUncaught ==
    /\ pc = "normalize"
    /\ IF NormalizeRaises(local.item)
       THEN /\ local' = [local EXCEPT !.result = "error"]
            /\ pc' = "dead"
       ELSE /\ local' = local
            /\ pc' = "send"
    /\ UNCHANGED <<seen_file, seen_hashes, recent_items, sheet, hashseed,
                   clock, run, loaded, preloaded, si, fetched, items, web,
                   market, outbox, rows, once, earlier, wfails, inserted,
                   config>>

\* lines 192-221: the fields and the text; an exception ends the call in the
\* except of line 247
Normalize ==
    /\ pc = "normalize"
    /\ IF NormalizeRaises(local.item)
       THEN /\ local' = [local EXCEPT !.result = "error"]
            /\ pc' = "ret"
       ELSE /\ local' = local
            /\ pc' = "send"
    /\ UNCHANGED <<seen_file, seen_hashes, recent_items, sheet, hashseed,
                   clock, run, loaded, preloaded, si, fetched, items, web,
                   market, outbox, rows, once, earlier, wfails, inserted,
                   config>>

\* one request to Telegram: sendPhoto with the caption when there is a photo
\* URL, sendMessage otherwise
Sends(item) == {o \in outbox : o.item = item}

TelegramRequest(item) ==
    [item |-> item, nth |-> Cardinality(Sends(item)) + 1,
     endpoint |-> IF extract_photo_url(item) # "" THEN "sendPhoto" ELSE "sendMessage",
     photo |-> extract_photo_url(item)]

\* a send whose failure reaches the except of line 247
SendPropagating ==
    /\ pc = "send"
    /\ \E ok \in BOOLEAN :
          /\ outbox' = outbox \cup {TelegramRequest(local.item)}
          /\ local' = [local EXCEPT !.sent = IF ok THEN "ok" ELSE "failed",
                                    !.tries = local.tries + 1,
                                    !.result = IF ok THEN "none" ELSE "error"]
          /\ pc' = IF ok THEN "sheet" ELSE "ret"
    /\ UNCHANGED <<seen_file, seen_hashes, recent_items, sheet, hashseed,
                   clock, run, loaded, preloaded, si, fetched, items, web,
                   market, rows, once, earlier, wfails, inserted, config>>

\* lines 223-227 with send_telegram_message (167-176): one request, whose
\* failure is printed and dropped
Send ==
    /\ pc = "send"
    /\ \E ok \in BOOLEAN :
          /\ outbox' = outbox \cup {TelegramRequest(local.item)}
          /\ local' = [local EXCEPT !.sent = IF ok THEN "ok" ELSE "failed",
                                    !.tries = local.tries + 1]
    /\ pc' = "sheet"
    /\ UNCHANGED <<seen_file, seen_hashes, recent_items, sheet, hashseed,
                   clock, run, loaded, preloaded, si, fetched, items, web,
                   market, rows, once, earlier, wfails, inserted, config>>

Rows(item) == {r \in rows : r.item = item}

\* the append_row call of line 232: the row is rec's fields in column order
SheetRow(item, spec) ==
    [item |-> item, nth |-> Cardinality(Rows(item)) + 1, row |-> Rec(item, spec)]

\* lines 229-235: the row, when the sheet is configured; append_row may raise
SheetAppend ==
    /\ pc = "sheet"
    /\ IF sheet
       THEN /\ rows' = rows \cup {SheetRow(local.item, SEARCHES[si])}
            /\ \E ok \in BOOLEAN :
                  local' = [local EXCEPT !.rowed = IF ok THEN "ok" ELSE "failed"]
       ELSE /\ rows' = rows
            /\ local' = local
    /\ pc' = "insert"
    /\ UNCHANGED <<seen_file, seen_hashes, recent_items, sheet, hashseed,
                   clock, run, loaded, preloaded, si, fetched, items, web,
                   market, outbox, once, earlier, wfails, inserted, config>>

\* an insert at the end of the list
InsertAtEnd(l, rec) == Append(l, rec)

\* line 241: recent_items.insert(0, rec)
InsertFront(l, rec) == <<rec>> \o l

\* a list that pops its first entry, the newest, when too long
TrimmedAtFront(l) == IF Len(l) > MAX_RECENT THEN Tail(l) ELSE l

\* lines 242-243: the list after the pop of its last entry, when too long
Trimmed(l) == IF Len(l) > MAX_RECENT THEN SubSeq(l, 1, Len(l) - 1) ELSE l

\* lines 238-241
InsertRecent ==
    /\ pc = "insert"
    /\ recent_items' = InsertFront(recent_items, Rec(local.item, SEARCHES[si]))
    /\ inserted' = Append(inserted, Rec(local.item, SEARCHES[si]))
    /\ pc' = "trim"
    /\ UNCHANGED <<seen_file, seen_hashes, sheet, hashseed, clock, run,
                   loaded, preloaded, si, fetched, items, local, web, market,
                   outbox, rows, once, earlier, wfails, config>>

\* lines 242-246
TrimRecent ==
    /\ pc = "trim"
    /\ recent_items' = Trimmed(recent_items)
    /\ local' = [local EXCEPT !.result = "notified"]
    /\ pc' = "ret"
    /\ UNCHANGED <<seen_file, seen_hashes, sheet, hashseed, clock, run,
                   loaded, preloaded, si, fetched, items, web, market, outbox,
                   rows, once, earlier, wfails, inserted, config>>

\* process_item has returned to line 283: the loop goes on
Return ==
    /\ pc = "ret"
    /\ local' = NoLocal
    /\ pc' = "item"
    /\ UNCHANGED <<seen_file, seen_hashes, recent_items, sheet, hashseed,
                   clock, run, loaded, preloaded, si, fetched, items, web,
                   market, outbox, rows, once, earlier, wfails, inserted,
                   config>>

(***************************************************************************)
(* The Flask views.  The scraper thread and a view share seen_hashes and   *)
(* recent_items with no lock: a view's reads interleave with the steps of  *)
(* process_item.                                                           *)
(***************************************************************************)
\* a request for "/" or for "/item/<item_id>" arrives
Request ==
    /\ web.op = "idle"
    /\ \/ web' = [WebIdle EXCEPT !.op = "index", !.step = "tracked_total"]
       \/ \E a \in Targets :
             web' = [WebIdle EXCEPT !.op = "get_item", !.arg = a, !.step = "scan",
                                    !.had = Holds(recent_items, a),
                                    !.n0 = Len(inserted)]
    /\ UNCHANGED <<seen_file, seen_hashes, recent_items, sheet, hashseed,
                   clock, run, loaded, preloaded, pc, si, fetched, items,
                   local, market, outbox, rows, once, earlier, wfails,
                   inserted, config>>

\* line 298
IndexTotal ==
    /\ web.op = "index" /\ web.step = "tracked_total"
    /\ web' = [web EXCEPT !.tracked_total = Cardinality(seen_hashes),
                          !.step = "recent_count"]
    /\ UNCHANGED <<seen_file, seen_hashes, recent_items, sheet, hashseed,
                   clock, run, loaded, preloaded, pc, si, fetched, items,
                   local, market, outbox, rows, once, earlier, wfails,
                   inserted, config>>

\* line 299
IndexCount ==
    /\ web.op = "index" /\ web.step = "recent_count"
    /\ web' = [web EXCEPT !.recent_count = Len(recent_items), !.step = "recent"]
    /\ UNCHANGED <<seen_file, seen_hashes, recent_items, sheet, hashseed,
                   clock, run, loaded, preloaded, pc, si, fetched, items,
                   local, market, outbox, rows, once, earlier, wfails,
                   inserted, config>>

\* line 300, and the response
IndexRecent ==
    /\ web.op = "index" /\ web.step = "recent"
    /\ web' = [web EXCEPT !.recent = Slice(recent_items, RecentShown),
                          !.status = 200, !.step = "done"]
    /\ UNCHANGED <<seen_file, seen_hashes, recent_items, sheet, hashseed,
                   clock, run, loaded, preloaded, pc, si, fetched, items,
                   local, market, outbox, rows, once, earlier, wfails,
                   inserted, config>>

\* a lookup that answers 404 at the first entry that does not match
GetItemFirstOnly ==
    /\ web.op = "get_item" /\ web.step = "scan"
    /\ IF web.i < Len(recent_items) /\ IdMatches(recent_items[web.i + 1], web.arg)
       THEN web' = [web EXCEPT !.i = web.i + 1,
                               !.recent = <<recent_items[web.i + 1]>>,
                               !.scanned = Len(recent_items),
                               !.status = 200, !.step = "done"]
       ELSE web' = [web EXCEPT !.status = 404, !.step = "done",
                               !.scanned = Len(recent_items)]
    /\ UNCHANGED <<seen_file, seen_hashes, recent_items, sheet, hashseed,
                   clock, run, loaded, preloaded, pc, si, fetched, items,
                   local, market, outbox, rows, once, earlier, wfails,
                   inserted, config>>

\* lines 309-312: one turn of the loop over recent_items (the list iterator
\* takes the entry at its index, if there is one), or the 404 after the loop
GetItemScan ==
    /\ web.op = "get_item" /\ web.step = "scan"
    /\ IF web.i < Len(recent_items)
       THEN LET r == recent_items[web.i + 1] IN
            IF IdMatches(r, web.arg)
            THEN web' = [web EXCEPT !.i = web.i + 1, !.recent = <<r>>,
                                    !.scanned = Len(recent_items),
                                    !.status = 200, !.step = "done"]
            ELSE web' = [web EXCEPT !.i = web.i + 1,
                                    !.scanned = Len(recent_items)]
       ELSE web' = [web EXCEPT !.status = 404, !.step = "done",
                               !.scanned = Len(recent_items)]
    /\ UNCHANGED <<seen_file, seen_hashes, recent_items, sheet, hashseed,
                   clock, run, loaded, preloaded, pc, si, fetched, items,
                   local, market, outbox, rows, once, earlier, wfails,
                   inserted, config>>

\* the response is sent
Respond ==
    /\ web.step = "done"
    /\ web' = WebIdle
    /\ UNCHANGED <<seen_file, seen_hashes, recent_items, sheet, hashseed,
                   clock, run, loaded, preloaded, pc, si, fetched, items,
                   local, market, outbox, rows, once, earlier, wfails,
                   inserted, config>>

\* the Flask thread
Web ==
    \/ Request
    \/ IndexTotal
    \/ IndexCount
    \/ IndexRecent
    \/ GetItemScan
    \/ Respond

\* the scraper thread
Scraper ==
    \/ Fetch
    \/ NextItem
    \/ Sleep
    \/ ItemHash
    \/ MarkSeen
    \/ PersistSeen
    \/ Normalize
    \/ Send
    \/ SheetAppend
    \/ InsertRecent
    \/ TrimRecent
    \/ Return

Next ==
    \/ Scraper
    \/ Web
    \/ Restart

\* every thread and the restarts, against the marketplace with one listing
Init == InitOn("solo") \/ InitUnconfigured("solo")
Spec == Init /\ [][Next]_vars

\* one run of the scraper thread against the marketplace of malformed items
InitListings == InitOn("listings")
SpecListings == InitListings /\ [][Scraper]_vars

\* one run of the scraper thread against every shape of response
InitShapes == InitOn("shapes")
SpecShapes == InitShapes /\ [][Scraper]_vars

\* one run of both threads against the marketplace of ordinary items
InitPlain == InitOn("plain")
SpecWeb == InitPlain /\ [][Scraper \/ Web]_vars

\* one run of the scraper thread against a marketplace with one item that
\* lacks some of its fields
InitFields == \E S \in SUBSET FieldNames : InitIn([name |-> "fields", absent |-> S])
SpecFields == InitFields /\ [][Scraper]_vars

\* one run of the scraper thread against the marketplace of spellings
InitVariants == InitOn("variants")
SpecVariants == InitVariants /\ [][Scraper]_vars

\* one run of the scraper thread, which is never suspended for ever: every
\* blocking call of the loop has a timeout (lines 171, 174, 258) or returns
\* (line 289)
SpecLive == InitListings /\ [][Scraper]_vars /\ WF_vars(Scraper)

(***************************************************************************)
(* The claims.                                                             *)
(***************************************************************************)
\* process_item has returned and the scraper thread is back at line 283
Returned == pc = "ret"

\* C1: within one run, when process_item returns from a call for a raw item
\* it had been handed before in this run, exactly one notification has been
\* dispatched for that item and, when the sheet is configured, exactly one
\* row has been appended for it.
C1_ExactlyOneNotification ==
    (Returned /\ local.again) =>
        /\ Cardinality(Sends(local.item)) = 1
        /\ sheet => Cardinality(Rows(local.item)) = 1

\* C2: after a restart that read seen_items.txt, an item an earlier run
\* notified, and whose fingerprint of that run is in the file, gets the same
\* fingerprint again and is skipped.
C2_SkippedAfterRestart ==
    (Returned /\ loaded /\ local.item \in earlier) =>
        /\ local.h \in preloaded
        /\ local.result = "seen"

\* C3: whenever the scraper thread is not between the insert of line 241 and
\* the pop of line 243, recent_items holds at most MAX_RECENT entries; and
\* when process_item has returned from the insertion number MAX_RECENT + 1
\* of distinct records, the first record inserted is gone and the last one
\* inserted is at index 0.
C3_RecentBounded ==
    /\ pc # "trim" => Len(recent_items) <= MAX_RECENT
    /\ (/\ Returned
        /\ local.result = "notified"
        /\ Len(inserted) = MAX_RECENT + 1
        /\ Cardinality(Range(inserted)) = MAX_RECENT + 1) =>
           /\ inserted[1] \notin Range(recent_items)
           /\ recent_items[1] = inserted[MAX_RECENT + 1]

\* process_item has returned from the insertion number MAX_RECENT + 1
C3_Overflowed ==
    /\ Returned
    /\ local.result = "notified"
    /\ Len(inserted) = MAX_RECENT + 1
    /\ Cardinality(Range(inserted)) = MAX_RECENT + 1

\* C4: when the request to Telegram fails, process_item sends no second
\* request and still runs to its end: the fingerprint is in seen_hashes, the
\* row is attempted when the sheet is configured, and the record is at the
\* front of recent_items when the call returns.
C4_SendFailureDropped ==
    (Returned /\ local.sent = "failed") =>
        /\ local.tries = 1
        /\ local.result = "notified"
        /\ local.h \in seen_hashes
        /\ sheet => local.rowed # "none"
        /\ recent_items # <<>>
        /\ recent_items[1] = Rec(local.item, SEARCHES[si])

\* process_item has returned from a call whose request to Telegram failed
C4_SendFailed == Returned /\ local.sent = "failed"

\* the last fetch failed: requests.get raised, the status was no success, or
\* the body was no JSON
C5_FetchFailed == fetched.outcome \in {"exc", "nonjson"} \/ ~fetched.ok

\* C5: after a fetch that failed (connection error or timeout, non-success
\* status, body that is no JSON) the scraper goes straight on to the next
\* fetch or to the sleep, and until the next fetch no step sends a
\* notification, appends a row, or changes seen_hashes, seen_items.txt or
\* recent_items.
C5_FailedFetchSkipped ==
    /\ [](C5_FetchFailed => pc \in {"fetch", "sleep"})
    /\ [][C5_FetchFailed =>
            UNCHANGED <<seen_hashes, seen_file, recent_items, outbox, rows>>]_vars

\* the last fetch returned a JSON object without a non-empty item list
\* under "items", under "data", or one level below either
C6_NoListing == fetched.json /\ ~fetched.listing

\* C6: after a fetch whose JSON body holds no recognized item list, or an
\* empty one, no step before the next fetch sends a notification, appends to
\* seen_items.txt, or changes seen_hashes or recent_items.
C6_NoListingNoEffect ==
    [][C6_NoListing =>
          UNCHANGED <<outbox, seen_file, seen_hashes, recent_items>>]_vars

\* C7: whatever the interleaving of the two threads, index() never reports
\* a recent_count above MAX_RECENT and the loop of get_item never reads
\* recent_items while it holds more than MAX_RECENT entries.
C7_NoTornRead ==
    /\ web.op = "index" => web.recent_count <= MAX_RECENT
    /\ web.op = "get_item" => web.scanned <= MAX_RECENT

\* C8: the scraper loop never ends: whatever fails (a fetch, a body, a
\* normalization, a send, an append), every search of SEARCHES is fetched
\* again and again, for ever, as long as the thread is scheduled.
C8_FetchedForever ==
    \A i \in 1..NumSearches : []<><<Fetch /\ si = i>>_vars

\* the loop is back at the first search after a pass whose last fetch
\* failed, in a run where an append to seen_items.txt failed, a fingerprint
\* fell back to the time and a normalization raised
C8_SurvivedFailures ==
    /\ pc = "fetch" /\ si = 1
    /\ fetched.outcome \in {"exc", "nonjson"}
    /\ wfails > 0
    /\ clock > 0
    /\ \E it \in once : NormalizeRaises(it)

\* C9: when the append of a new fingerprint to seen_items.txt fails, the
\* call still runs to its end: the fingerprint is in seen_hashes, one request
\* is sent to Telegram, the record is at the front of recent_items; and when
\* the same raw item, the only one handed on so far, is handed on again in
\* this run, it has one notification still.
C9_AppendFailureInMemory ==
    /\ (Returned /\ local.wrote = "failed") =>
           /\ local.h \in seen_hashes
           /\ local.result = "notified"
           /\ local.tries = 1
           /\ Cardinality(Sends(local.item)) = 1
           /\ recent_items # <<>>
           /\ recent_items[1] = Rec(local.item, SEARCHES[si])
    /\ (Returned /\ local.again /\ wfails > 0 /\ once = {local.item}) =>
           Cardinality(Sends(local.item)) = 1

\* C10: a lookup answers with an entry exactly when recent_items holds the
\* id at the time of the lookup, which is some moment between the arrival of
\* the request and its answer: an answer of 200 carries an entry with the id
\* (compared as strings) that was in the list on arrival or was inserted
\* since, and an answer of 404 means the list did not hold the id on arrival
\* or does not hold it now (no record is inserted twice in a run, so an id
\* held on arrival and now was held all along).  With no insert or pop in
\* between, the answer is 200 exactly when the list holds the id.
C10_LookupExact ==
    (web.op = "get_item" /\ web.step = "done") =>
        /\ web.status \in {200, 404}
        /\ web.status = 200 =>
              /\ Len(web.recent) = 1
              /\ IdMatches(web.recent[1], web.arg)
              /\ \/ web.had
                 \/ \E k \in (web.n0 + 1)..Len(inserted) : inserted[k] = web.recent[1]
        /\ web.status = 404 => ~(web.had /\ Holds(recent_items, web.arg))

\* a lookup of an item this run notified, and which has left recent_items
\* since, answers 404
C10_EvictedNotFound ==
    /\ web.op = "get_item" /\ web.step = "done"
    /\ web.status = 404
    /\ \E k \in 1..Len(inserted) : IdMatches(inserted[k], web.arg)
    /\ ~Holds(recent_items, web.arg)
    /\ Len(inserted) = web.n0

\* C11: in a process started without BOT_TOKEN or CHAT_ID the scraper thread
\* and the Flask server never start, nothing is fetched, sent or appended to
\* the sheet, seen_items.txt is not read (seen_hashes stays empty whatever
\* the file holds) and no step of that process writes to it.
C11_NoConfigNoRun ==
    /\ [](~config =>
            /\ pc = "failed"
            /\ web.op = "down"
            /\ fetched = NoFetch
            /\ outbox = {} /\ rows = {}
            /\ seen_hashes = {} /\ preloaded = {} /\ ~loaded
            /\ recent_items = <<>>)
    /\ [][(~config /\ ~config') => seen_file' = seen_file]_vars

\* a process started without credentials next to a seen_items.txt that an
\* earlier run has written
C11_FailedNextToLog == ~config /\ seen_file # <<>> /\ run > 0

\* C12: a fingerprint added to seen_hashes during the run is in
\* seen_items.txt already: the append comes first, the insert into the set
\* second, so that a crash between the two leaves the fingerprint in the file.
C12_AppendBeforeInsert ==
    \A h \in seen_hashes \ preloaded : Line(h) \in Range(seen_file)

\* C13: the scraper thread does one thing at a time, in a fixed order.  The
\* searches are fetched in the order of SEARCHES, the pass starting again at
\* the first after the sleep; a fetch starts only when the list of the fetch
\* before it is exhausted and no call of process_item is open; the elements
\* of a list are handed on first to last, each when the call for the one
\* before has returned; and within a call the effects come in the order
\* seen_hashes, Telegram request, sheet row, recent_items.
C13_Sequential ==
    [][/\ si' # si => \/ si' = si + 1 /\ pc \in {"fetch", "item"}
                      \/ si' = 1 /\ pc = "sleep"
       /\ (pc' \in {"fetch", "sleep"} /\ pc # pc') =>
             /\ pc \in {"item", "sleep", "fetch"}
             /\ items = <<>> /\ local = NoLocal
       /\ pc' = "hash" =>
             /\ pc = "item" /\ local = NoLocal
             /\ local'.item = Unwrap(Head(items))
             /\ items' = Tail(items)
       /\ outbox' # outbox =>
             /\ local.h \in seen_hashes
             /\ local.tries = 0 /\ local.rowed = "none"
             /\ UNCHANGED <<seen_hashes, seen_file, rows, recent_items>>
       /\ rows' # rows =>
             /\ local.tries = 1 /\ local.rowed = "none"
             /\ UNCHANGED <<seen_hashes, seen_file, outbox, recent_items>>
       /\ inserted' # inserted =>
             /\ local.h \in seen_hashes
             /\ local.tries = 1
             /\ sheet => local.rowed # "none"
             /\ inserted' = Append(inserted, Rec(local.item, SEARCHES[si]))
             /\ UNCHANGED <<seen_hashes, seen_file, outbox, rows>>
      ]_vars

\* the second item of a pass has gone through all four effects, with a row
\* in the sheet, after the first one had
C13_SecondItemDone ==
    /\ Returned /\ local.result = "notified"
    /\ sheet /\ local.rowed = "ok"
    /\ Len(inserted) = 2
    /\ Cardinality(outbox) = 2

\* C14: when process_item returns from a call for an item whose fingerprint
\* was not in seen_hashes, the call has sent exactly one request to Telegram:
\* sendPhoto carrying the photo URL when extract_photo_url found one,
\* sendMessage otherwise, whether or not the request succeeded.
C14_OneRequest ==
    (Returned /\ local.result # "seen") =>
        /\ local.tries = 1
        /\ \E o \in Sends(local.item) :
              /\ o.nth = Cardinality(Sends(local.item))
              /\ o.photo = extract_photo_url(local.item)
              /\ o.endpoint = "sendPhoto" <=> o.photo # ""
              /\ o.endpoint = "sendMessage" <=> o.photo = ""

\* the last k entries of l, the last one first
NewestFirst(l, k) == [i \in 1..k |-> l[Len(l) - i + 1]]

\* C15: when process_item returns, recent_items is the sequence of the
\* min(n, MAX_RECENT) records inserted last in this run, newest first, where
\* n, the number of records inserted, is the number of requests sent to
\* Telegram in this run.
C15_RecentIsNewestFirst ==
    Returned =>
        LET n == Len(inserted)
            k == IF n < MAX_RECENT THEN n ELSE MAX_RECENT
        IN  /\ recent_items = NewestFirst(inserted, k)
            /\ Cardinality(outbox) = n

\* process_item has returned from an insert that dropped the oldest entry
C15_OldestDropped ==
    /\ Returned /\ local.result = "notified"
    /\ Len(inserted) > MAX_RECENT
    /\ Len(recent_items) = MAX_RECENT
    /\ recent_items[MAX_RECENT] = inserted[Len(inserted) - MAX_RECENT + 1]

\* C16: when process_item returns from a call for an item that normalizes to
\* the same id, title and price text as an item handed on earlier in this run
\* (the same raw item, or another one), the call has found the fingerprint
\* in seen_hashes and has not notified.
C16_SameTripleDeduplicated ==
    (/\ Returned
     /\ ~NormalizeRaises(local.item)
     /\ \/ local.again
        \/ \E a \in once \ {local.item} :
              ~NormalizeRaises(a) /\ NormTriple(a) = NormTriple(local.item)) =>
        local.result = "seen"

\* the item list of a body in the order of the three shapes: the array under
\* "items", else the array under "data", else the array one level below
ListInOrder(r) ==
    IF r.items.k = "list" /\ r.items.elems # <<>> THEN r.items.elems
    ELSE IF r.data.k = "list" /\ r.data.elems # <<>> THEN r.data.elems
    ELSE IF r.items.k = "dict" /\ r.items.has THEN r.items.elems
    ELSE IF r.data.k = "dict" /\ r.data.has THEN r.data.elems
    ELSE <<>>

\* C17: a fetch that parses a body holding an item list leaves, as the
\* elements to hand on, the list found by trying the array under "items",
\* then the array under "data", then the nested wrapper, in the order of the
\* provider; and each element is handed to process_item once, first to last,
\* an element {"item": {...}} as the object under "item".
C17_ExtractionInOrder ==
    [][/\ pc = "fetch" =>
             \E r \in Offered(market, si) :
                /\ fetched' = Fetched(r)
                /\ HasListing(r) => items' = ListInOrder(r)
       /\ pc' = "hash" =>
             /\ items' = Tail(items)
             /\ local'.item = IF Head(items).item.k = "dict"
                              THEN Head(items).item.v ELSE Head(items).self
      ]_vars

\* the record of ItemFull without the fields of S, with the sentinel in the
\* place of each
SentinelRec(S, spec) ==
    [id |-> IF "id" \in S THEN PyStr("") ELSE PyInt("7"),
     brand |-> spec.brand, category |-> spec.category,
     price |-> IF "price" \in S THEN "N/A" ELSE "19.99",
     title |-> IF "title" \in S THEN "Senza titolo" ELSE "Felpa",
     sizes |-> IF "size" \in S THEN "N/A" ELSE "M",
     condition |-> IF "condition" \in S THEN "N/A" ELSE "Nuovo",
     link |-> IF "id" \notin S THEN <<"https://www.vinted.it/items/", "7">>
              ELSE IF "link" \in S THEN <<"", "N/A">> ELSE <<"", "http://v/7">>,
     state |-> "Trovato"]

\* C18: a new item that lacks any subset of title, price, size, condition,
\* id, link and photo goes through process_item to the end: it is in
\* seen_hashes, one request is sent (sendMessage when the photo is missing),
\* and the record at the front of recent_items holds "Senza titolo" for a
\* missing title and "N/A" for a missing price, size, condition and link.
C18_SentinelsNeverAbort ==
    (Returned /\ ~local.again) =>
        /\ local.result = "notified"
        /\ local.h \in seen_hashes
        /\ local.tries = 1
        /\ Cardinality(Sends(local.item)) = 1
        /\ \A o \in Sends(local.item) :
              /\ o.photo = IF "photo" \in market.absent THEN "" ELSE "http://p/7u"
              /\ o.endpoint = IF "photo" \in market.absent
                              THEN "sendMessage" ELSE "sendPhoto"
        /\ recent_items # <<>>
        /\ recent_items[1] = SentinelRec(market.absent, SEARCHES[si])

\* the item without any of the seven fields has been notified
C18_BareItemNotified ==
    /\ Returned /\ ~local.again
    /\ market.absent = FieldNames
    /\ local.result = "notified"

\* C19: when process_item returns from a call that added its fingerprint to
\* seen_hashes, the call has sent a request to Telegram and has inserted the
\* item's record into recent_items: no call marks an item seen and returns
\* without having notified it.
C19_SeenNeverWithoutNotice ==
    (Returned /\ local.result # "seen" /\ local.h \in seen_hashes) =>
        /\ local.sent # "none"
        /\ inserted # <<>>
        /\ inserted[Len(inserted)] = Rec(local.item, SEARCHES[si])

\* C20: in a process whose startup read of seen_items.txt succeeded, every
\* line of the file that is not blank is in seen_hashes, at every moment;
\* the file only grows at its end, over restarts too; and within a run
\* seen_hashes never loses a member.
C20_SetMirrorsLog ==
    /\ [](loaded =>
            \A i \in 1..Len(seen_file) :
               Strip(seen_file[i]) # NoText => Strip(seen_file[i]) \in seen_hashes)
    /\ [][/\ Len(seen_file') >= Len(seen_file)
          /\ SubSeq(seen_file', 1, Len(seen_file)) = seen_file
          /\ run' = run => seen_hashes \subseteq seen_hashes'
         ]_vars

\* a restarted process that read a log with lines in it has appended a line
C20_AppendedAfterLoad ==
    /\ run > 0 /\ loaded
    /\ preloaded # {}
    /\ Len(seen_file) > Cardinality(preloaded)
    /\ pc = "normalize" /\ local.wrote = "ok"

====
